---------------------------- MODULE Spec2Model ----------------------------
(***************************************************************************)
(* alert-aid: the risk-prediction engine of backend/routes/predict.py and  *)
(* the request handlers around it.                                         *)
(*                                                                         *)
(* Numbers.  The code computes in binary floating point; the model         *)
(* computes the same expressions in exact fixed point:                     *)
(*   - a probability p is the integer p * Unit (Unit = 5 250 000 makes     *)
(*     every quotient of the four scorers exact for the inputs below);     *)
(*   - a published probability (round(p, 3)) is an integer per-mille;      *)
(*   - a risk score (round(s, 1)) is an integer number of tenths;          *)
(*   - temperature in degrees C, humidity in percent, pressure in hPa,     *)
(*     latitude/longitude in degrees, wind in tenths of km/h, visibility   *)
(*     in metres.                                                          *)
(* round(x, n) is Python's round: to nearest, ties to even.                *)
(***************************************************************************)
EXTENDS Integers, Sequences, FiniteSets

Unit == 5250 * 1000

Max(a, b) == IF a >= b THEN a ELSE b
Min(a, b) == IF a <= b THEN a ELSE b
Abs(a) == IF a < 0 THEN 0 - a ELSE a

\* round(n / d) to an integer, ties to even (d > 0)
RoundDiv(n, d) ==
    LET q == n \div d
        r == n % d
    IN  IF 2 * r < d THEN q
        ELSE IF 2 * r > d THEN q + 1
        ELSE IF q % 2 = 0 THEN q ELSE q + 1

\* round(p, 3) of a probability: per-mille
Round3(p) == RoundDiv(p, Unit \div 1000)

---------------------------------------------------------------------------
(* Hazard scorers.  month is datetime.now().month, jitter the value drawn  *)
(* by random.uniform, both passed in.                                      *)

\* mutant: latitude 50 left out of the fire-prone band
wildfire_lat_factor_open(lat) ==
    IF 30 <= Abs(lat) /\ Abs(lat) < 50 THEN 13
    ELSE IF Abs(lat) < 10 THEN 7
    ELSE 10

wildfire_lat_factor(lat) ==
    IF 30 <= Abs(lat) /\ Abs(lat) <= 50 THEN 13
    ELSE IF Abs(lat) < 10 THEN 7
    ELSE 10

\* mutant: March counted as a winter month
wildfire_seasonal_factor_long_winter(month) ==
    IF month \in {6, 7, 8, 9} THEN 14
    ELSE IF month \in {12, 1, 2, 3} THEN 6
    ELSE 10

wildfire_seasonal_factor(month) ==
    IF month \in {6, 7, 8, 9} THEN 14
    ELSE IF month \in {12, 1, 2} THEN 6
    ELSE 10

\* the risk before the jitter is added (final_risk at line 387)
wildfire_final_risk(temp, humidity, wind, lat, month) ==
    LET temp_factor == Max(0, (temp - 20) * (Unit \div 30))
        humidity_factor == Max(0, (70 - humidity) * (Unit \div 70))
        wind_factor == Min(Unit, wind * (Unit \div 250))
        base_risk == (temp_factor * 3) \div 10 + (humidity_factor * 4) \div 10
                        + (wind_factor * 3) \div 10
    IN  (((base_risk \div 10) * wildfire_lat_factor(lat)) \div 10)
            * wildfire_seasonal_factor(month)

_calculate_wildfire_risk(temp, humidity, wind, lat, month, jitter) ==
    Max(0, Min(Unit, wildfire_final_risk(temp, humidity, wind, lat, month) + jitter))

flood_humidity_factor(humidity) == Min(Unit, (humidity - 50) * (Unit \div 40))

flood_final_risk(humidity, pressure, temp, lat, month) ==
    LET humidity_factor == flood_humidity_factor(humidity)
        pressure_factor == Max(0, (1020 - pressure) * (Unit \div 20))
        temp_factor == IF 5 <= temp /\ temp <= 35 THEN (Unit \div 10) * 3 ELSE Unit \div 10
        coastal_factor == IF Abs(lat) < 45 THEN 12 ELSE 10
        seasonal_factor == IF month \in {5, 6, 7, 8, 9, 10} THEN 13 ELSE 8
        base_risk == (humidity_factor * 4) \div 10 + (pressure_factor \div 10) * 4
                        + (temp_factor * 2) \div 10
    IN  (((base_risk \div 10) * coastal_factor) \div 10) * seasonal_factor

\* mutant: the upper clamp forgotten
_calculate_flood_risk_unclamped(humidity, pressure, temp, lat, month, jitter) ==
    Max(0, flood_final_risk(humidity, pressure, temp, lat, month) + jitter)

_calculate_flood_risk(humidity, pressure, temp, lat, month, jitter) ==
    Max(0, Min(Unit, flood_final_risk(humidity, pressure, temp, lat, month) + jitter))

storm_humidity_factor(humidity) == Min(Unit, (humidity - 60) * (Unit \div 30))

storm_base_risk(wind, pressure, humidity, temp) ==
    LET wind_factor == Min(Unit, wind * (Unit \div 300))
        pressure_factor == Max(0, (1020 - pressure) * (Unit \div 25))
        humidity_factor == storm_humidity_factor(humidity)
        temp_factor == IF 15 <= temp /\ temp <= 40 THEN (Unit \div 10) * 4 ELSE (Unit \div 10) * 2
    IN  (wind_factor \div 100) * 35 + (pressure_factor \div 100) * 35
            + (humidity_factor \div 100) * 20 + (temp_factor \div 100) * 10

_calculate_storm_risk(wind, pressure, humidity, temp, jitter) ==
    Max(0, Min(Unit, storm_base_risk(wind, pressure, humidity, temp) + jitter))

\* risk in percent
risk_zones ==
    << [lat_range |-> <<32, 42>>, lon_range |-> <<-125, -114>>, risk |-> 40],
       [lat_range |-> <<35, 45>>, lon_range |-> <<135, 145>>, risk |-> 50],
       [lat_range |-> <<-45, -35>>, lon_range |-> <<165, 180>>, risk |-> 30],
       [lat_range |-> <<36, 42>>, lon_range |-> <<25, 35>>, risk |-> 25] >>

\* mutant: the upper edges of a rectangle excluded
in_zone_half_open(zone, lat, lon) ==
    /\ zone.lat_range[1] <= lat /\ lat < zone.lat_range[2]
    /\ zone.lon_range[1] <= lon /\ lon < zone.lon_range[2]

in_zone(zone, lat, lon) ==
    /\ zone.lat_range[1] <= lat /\ lat <= zone.lat_range[2]
    /\ zone.lon_range[1] <= lon /\ lon <= zone.lon_range[2]

RECURSIVE zone_scan(_, _, _, _)
\* the loop of lines 456-459, from zone i on, base_risk in percent
zone_scan(i, base_risk, lat, lon) ==
    IF i > Len(risk_zones) THEN base_risk
    ELSE zone_scan(i + 1,
                   IF in_zone(risk_zones[i], lat, lon)
                      THEN Max(base_risk, risk_zones[i].risk) ELSE base_risk,
                   lat, lon)

\* base_risk after the loop, in percent
earthquake_base_risk(lat, lon) == zone_scan(1, 2, lat, lon)

\* fault_distance_factor in percent (70..130), jitter in Unit
_calculate_earthquake_risk(lat, lon, fault_distance_factor, jitter) ==
    LET base_risk == earthquake_base_risk(lat, lon) * (Unit \div 100)
        final_risk == (base_risk \div 100) * fault_distance_factor
    IN  Max(0, Min(Unit, final_risk + jitter))

\* mutant: the "high" boundary exclusive
_get_severity_level_strict(probability) ==
    IF probability * 10 >= 7 * Unit THEN "critical"
    ELSE IF probability * 10 > 5 * Unit THEN "high"
    ELSE IF probability * 10 >= 3 * Unit THEN "moderate"
    ELSE IF probability * 10 >= Unit THEN "low"
    ELSE "minimal"

_get_severity_level(probability) ==
    IF probability * 10 >= 7 * Unit THEN "critical"
    ELSE IF probability * 10 >= 5 * Unit THEN "high"
    ELSE IF probability * 10 >= 3 * Unit THEN "moderate"
    ELSE IF probability * 10 >= Unit THEN "low"
    ELSE "minimal"

\* mutant: the first entry instead of the largest
_calculate_overall_confidence_first(predictions) ==
    IF predictions = << >> THEN "low"
    ELSE LET max_prob == predictions[1].probability
         IN  IF max_prob >= 600 THEN "high"
             ELSE IF max_prob >= 300 THEN "medium"
             ELSE "low"

_calculate_overall_confidence(predictions) ==
    IF predictions = << >> THEN "low"
    ELSE LET max_prob == CHOOSE m \in {predictions[i].probability : i \in DOMAIN predictions} :
                            \A i \in DOMAIN predictions : predictions[i].probability <= m
         IN  IF max_prob >= 600 THEN "high"
             ELSE IF max_prob >= 300 THEN "medium"
             ELSE "low"

\* the factors lists: append each tag whose test holds, the default if none does
_get_wildfire_factors(temp, humidity, wind) ==
    LET factors == (IF temp > 30 THEN <<"high_temperature">> ELSE << >>)
                   \o (IF humidity < 30 THEN <<"low_humidity">> ELSE << >>)
                   \o (IF wind > 150 THEN <<"strong_winds">> ELSE << >>)
    IN  IF factors = << >> THEN <<"moderate_conditions">> ELSE factors

_get_flood_factors(humidity, pressure, temp) ==
    LET factors == (IF humidity > 80 THEN <<"high_humidity">> ELSE << >>)
                   \o (IF pressure < 1005 THEN <<"low_pressure_system">> ELSE << >>)
                   \o (IF temp > 25 THEN <<"thunderstorm_conditions">> ELSE << >>)
    IN  IF factors = << >> THEN <<"stable_conditions">> ELSE factors

_get_storm_factors(wind, pressure, humidity) ==
    LET factors == (IF wind > 200 THEN <<"high_winds">> ELSE << >>)
                   \o (IF pressure < 1010 THEN <<"pressure_drop">> ELSE << >>)
                   \o (IF humidity > 75 THEN <<"moisture_buildup">> ELSE << >>)
    IN  IF factors = << >> THEN <<"calm_conditions">> ELSE factors

_get_wildfire_actions(risk) ==
    IF risk * 10 >= 6 * Unit
       THEN <<"evacuate_high_risk_areas", "emergency_services_alert", "fire_suppression_ready">>
    ELSE IF risk * 10 >= 3 * Unit
       THEN <<"increase_fire_watch", "prepare_evacuation_routes", "limit_outdoor_activities">>
    ELSE <<"monitor_conditions", "maintain_fire_safety_measures">>

_get_flood_actions(risk) ==
    IF risk * 10 >= 6 * Unit
       THEN <<"evacuate_flood_zones", "sandbag_operations", "emergency_shelters_open">>
    ELSE IF risk * 10 >= 3 * Unit
       THEN <<"flood_watch_active", "secure_loose_items", "avoid_low_areas">>
    ELSE <<"monitor_water_levels", "check_drainage_systems">>

_get_storm_actions(risk) ==
    IF risk * 10 >= 6 * Unit
       THEN <<"severe_weather_warning", "seek_indoor_shelter", "avoid_travel">>
    ELSE IF risk * 10 >= 3 * Unit
       THEN <<"weather_watch", "secure_outdoor_items", "monitor_updates">>
    ELSE <<"normal_weather_precautions", "stay_informed">>

\* mutant: the earthquake tiers cut at 0.6 and 0.3 like the other hazards
_get_earthquake_actions_like_others(risk) ==
    IF risk * 10 >= 6 * Unit
       THEN <<"earthquake_preparedness_high", "secure_heavy_objects", "review_evacuation_plans">>
    ELSE IF risk * 10 >= 3 * Unit
       THEN <<"earthquake_awareness", "emergency_kit_ready", "building_inspections">>
    ELSE <<"basic_earthquake_preparedness", "know_safety_procedures">>

_get_earthquake_actions(risk) ==
    IF risk * 10 >= 4 * Unit
       THEN <<"earthquake_preparedness_high", "secure_heavy_objects", "review_evacuation_plans">>
    ELSE IF risk * 10 >= 2 * Unit
       THEN <<"earthquake_awareness", "emergency_kit_ready", "building_inspections">>
    ELSE <<"basic_earthquake_preparedness", "know_safety_procedures">>

---------------------------------------------------------------------------
(* Prediction assembler.  d holds the call's random draws: d.w, d.f, d.s   *)
(* the jitters of the wildfire, flood and storm scorers, d.ef the          *)
(* fault-distance factor (percent), d.ej the earthquake jitter.            *)

\* the four locals wildfire_risk, flood_risk, storm_risk, earthquake_risk
scorer_locals(temp, humidity, wind, pressure, lat, lon, month, d) ==
    [wildfire |-> _calculate_wildfire_risk(temp, humidity, wind, lat, month, d.w),
     flood |-> _calculate_flood_risk(humidity, pressure, temp, lat, month, d.f),
     severe_weather |-> _calculate_storm_risk(wind, pressure, humidity, temp, d.s),
     earthquake |-> _calculate_earthquake_risk(lat, lon, d.ef, d.ej)]

\* mutant: the inclusion test inclusive
wildfire_threshold_inclusive(risk) == risk * 10 >= Unit

wildfire_threshold(risk) == risk * 10 > Unit
\* mutant: the flood cut-off at 0.2
flood_threshold_doubled(risk) == risk * 10 > 2 * Unit

flood_threshold(risk) == risk * 10 > Unit
storm_threshold(risk) == risk * 100 > 15 * Unit
\* mutant: the earthquake cut-off at 0.04
earthquake_threshold_low(risk) == risk * 100 > 4 * Unit

earthquake_threshold(risk) == risk * 100 > 5 * Unit

\* mutant: the synthetic entry labelled like a real hazard of its probability
low_risk_entry_relabelled ==
    [type |-> "low_risk", probability |-> 50, severity |-> "low",
     time_window |-> "current", factors |-> <<"stable_conditions">>,
     recommended_actions |-> <<"maintain_normal_vigilance", "monitor_weather_updates">>]

low_risk_entry ==
    [type |-> "low_risk", probability |-> 50, severity |-> "minimal",
     time_window |-> "current", factors |-> <<"stable_conditions">>,
     recommended_actions |-> <<"maintain_normal_vigilance", "monitor_weather_updates">>]

\* mutant: no low-risk entry is appended, the list may come back empty
_enhanced_disaster_prediction_bare(temp, humidity, wind, pressure, lat, lon, month, d) ==
    LET r == scorer_locals(temp, humidity, wind, pressure, lat, lon, month, d)
        p1 == IF wildfire_threshold(r.wildfire)
              THEN << [type |-> "wildfire",
                       probability |-> Round3(r.wildfire),
                       severity |-> _get_severity_level(r.wildfire),
                       time_window |-> "24-72 hours",
                       factors |-> _get_wildfire_factors(temp, humidity, wind),
                       recommended_actions |-> _get_wildfire_actions(r.wildfire)] >>
              ELSE << >>
        p2 == IF flood_threshold(r.flood)
              THEN Append(p1, [type |-> "flood",
                       probability |-> Round3(r.flood),
                       severity |-> _get_severity_level(r.flood),
                       time_window |-> "6-48 hours",
                       factors |-> _get_flood_factors(humidity, pressure, temp),
                       recommended_actions |-> _get_flood_actions(r.flood)])
              ELSE p1
        p3 == IF storm_threshold(r.severe_weather)
              THEN Append(p2, [type |-> "severe_weather",
                       probability |-> Round3(r.severe_weather),
                       severity |-> _get_severity_level(r.severe_weather),
                       time_window |-> "3-24 hours",
                       factors |-> _get_storm_factors(wind, pressure, humidity),
                       recommended_actions |-> _get_storm_actions(r.severe_weather)])
              ELSE p2
        p4 == IF earthquake_threshold(r.earthquake)
              THEN Append(p3, [type |-> "earthquake",
                       probability |-> Round3(r.earthquake),
                       severity |-> _get_severity_level(r.earthquake),
                       time_window |-> "geological timescale",
                       factors |-> <<"tectonic_activity", "geological_history",
                                     "seismic_patterns">>,
                       recommended_actions |-> _get_earthquake_actions(r.earthquake)])
              ELSE p3
    IN  p4

\* mutant: each entry is put at the head of the list, not at its end
_enhanced_disaster_prediction_prepending(temp, humidity, wind, pressure, lat, lon, month, d) ==
    LET r == scorer_locals(temp, humidity, wind, pressure, lat, lon, month, d)
        p1 == IF wildfire_threshold(r.wildfire)
              THEN << [type |-> "wildfire",
                       probability |-> Round3(r.wildfire),
                       severity |-> _get_severity_level(r.wildfire),
                       time_window |-> "24-72 hours",
                       factors |-> _get_wildfire_factors(temp, humidity, wind),
                       recommended_actions |-> _get_wildfire_actions(r.wildfire)] >>
              ELSE << >>
        p2 == IF flood_threshold(r.flood)
              THEN Append(p1, [type |-> "flood",
                       probability |-> Round3(r.flood),
                       severity |-> _get_severity_level(r.flood),
                       time_window |-> "6-48 hours",
                       factors |-> _get_flood_factors(humidity, pressure, temp),
                       recommended_actions |-> _get_flood_actions(r.flood)])
              ELSE p1
        p3 == IF storm_threshold(r.severe_weather)
              THEN Append(p2, [type |-> "severe_weather",
                       probability |-> Round3(r.severe_weather),
                       severity |-> _get_severity_level(r.severe_weather),
                       time_window |-> "3-24 hours",
                       factors |-> _get_storm_factors(wind, pressure, humidity),
                       recommended_actions |-> _get_storm_actions(r.severe_weather)])
              ELSE p2
        p4 == IF earthquake_threshold(r.earthquake)
              THEN Append(p3, [type |-> "earthquake",
                       probability |-> Round3(r.earthquake),
                       severity |-> _get_severity_level(r.earthquake),
                       time_window |-> "geological timescale",
                       factors |-> <<"tectonic_activity", "geological_history",
                                     "seismic_patterns">>,
                       recommended_actions |-> _get_earthquake_actions(r.earthquake)])
              ELSE p3
    IN  IF p4 = << >> THEN << low_risk_entry >>
        ELSE [i \in 1 .. Len(p4) |-> p4[Len(p4) + 1 - i]]

_enhanced_disaster_prediction(temp, humidity, wind, pressure, lat, lon, month, d) ==
    LET r == scorer_locals(temp, humidity, wind, pressure, lat, lon, month, d)
        p1 == IF wildfire_threshold(r.wildfire)
              THEN << [type |-> "wildfire",
                       probability |-> Round3(r.wildfire),
                       severity |-> _get_severity_level(r.wildfire),
                       time_window |-> "24-72 hours",
                       factors |-> _get_wildfire_factors(temp, humidity, wind),
                       recommended_actions |-> _get_wildfire_actions(r.wildfire)] >>
              ELSE << >>
        p2 == IF flood_threshold(r.flood)
              THEN Append(p1, [type |-> "flood",
                       probability |-> Round3(r.flood),
                       severity |-> _get_severity_level(r.flood),
                       time_window |-> "6-48 hours",
                       factors |-> _get_flood_factors(humidity, pressure, temp),
                       recommended_actions |-> _get_flood_actions(r.flood)])
              ELSE p1
        p3 == IF storm_threshold(r.severe_weather)
              THEN Append(p2, [type |-> "severe_weather",
                       probability |-> Round3(r.severe_weather),
                       severity |-> _get_severity_level(r.severe_weather),
                       time_window |-> "3-24 hours",
                       factors |-> _get_storm_factors(wind, pressure, humidity),
                       recommended_actions |-> _get_storm_actions(r.severe_weather)])
              ELSE p2
        p4 == IF earthquake_threshold(r.earthquake)
              THEN Append(p3, [type |-> "earthquake",
                       probability |-> Round3(r.earthquake),
                       severity |-> _get_severity_level(r.earthquake),
                       time_window |-> "geological timescale",
                       factors |-> <<"tectonic_activity", "geological_history",
                                     "seismic_patterns">>,
                       recommended_actions |-> _get_earthquake_actions(r.earthquake)])
              ELSE p3
    IN  IF p4 = << >> THEN << low_risk_entry >> ELSE p4

---------------------------------------------------------------------------
(* Risk aggregation of the two enhanced handlers.  Probabilities of the    *)
(* list are per-mille, scores are tenths.                                  *)

RECURSIVE SumProb(_)
SumProb(predictions) ==
    IF predictions = << >> THEN 0
    ELSE Head(predictions).probability + SumProb(Tail(predictions))

MaxProb(predictions) ==
    CHOOSE m \in {predictions[i].probability : i \in DOMAIN predictions} :
        \A i \in DOMAIN predictions : predictions[i].probability <= m

\* round(max(calculated_risk, base_risk), 1) of lines 79-82 and 223-226:
\* calculated_risk = (6 * max * n + 4 * sum) / (1000 * n), base_risk = 1.5
combined_risk_score(predictions) ==
    LET n == Len(predictions)
        calculated_risk == 6 * MaxProb(predictions) * n + 4 * SumProb(predictions)
        base_risk == 1500 * n
    IN  RoundDiv(Max(calculated_risk, base_risk), 100 * n)

\* mutant: the wildfire entry looked up under the name of the display field
display_score_fire(predictions, type, default_num, default_den) ==
    LET hits == SelectSeq(predictions,
                          LAMBDA p : p.type = (IF type = "wildfire" THEN "fire" ELSE type))
    IN  IF hits # << >> THEN RoundDiv(Head(hits).probability, 10)
        ELSE RoundDiv(default_num * 10, default_den)

\* next((p["probability"] * 10 for p in predictions if p["type"] == type), default),
\* rounded to 1 decimal; default_num / default_den is the default
display_score(predictions, type, default_num, default_den) ==
    LET hits == SelectSeq(predictions, LAMBDA p : p.type = type)
    IN  IF hits # << >> THEN RoundDiv(Head(hits).probability, 10)
        ELSE RoundDiv(default_num * 10, default_den)

\* mutant: the "critical" boundary exclusive
overall_category_strict(risk_score) ==
    IF risk_score > 70 THEN "critical"
    ELSE IF risk_score >= 50 THEN "high"
    ELSE IF risk_score >= 30 THEN "moderate"
    ELSE "low"

overall_category(risk_score) ==
    IF risk_score >= 70 THEN "critical"
    ELSE IF risk_score >= 50 THEN "high"
    ELSE IF risk_score >= 30 THEN "moderate"
    ELSE "low"

\* mutant: the final clamp to 10 forgotten
post_risk_score_unclamped(predictions, humidity, visibility) ==
    LET s0 == IF predictions # << >> THEN combined_risk_score(predictions) ELSE 15
        s1 == IF humidity > 90 THEN s0 + 10
              ELSE IF humidity > 80 THEN s0 + 5
              ELSE s0
        s2 == IF visibility < 5000 THEN s1 + 5 ELSE s1
    IN  RoundDiv(s2, 1)

\* mutant: the second humidity step an "if", not an "elif"
post_risk_score_both_steps(predictions, humidity, visibility) ==
    LET s0 == IF predictions # << >> THEN combined_risk_score(predictions) ELSE 15
        s1 == IF humidity > 90 THEN s0 + 10 ELSE s0
        s2 == IF humidity > 80 THEN s1 + 5 ELSE s1
        s3 == IF visibility < 5000 THEN s2 + 5 ELSE s2
    IN  RoundDiv(Min(s3, 100), 1)

\* lines 76-94 of predict_disaster_from_location
post_risk_score(predictions, humidity, visibility) ==
    LET s0 == IF predictions # << >> THEN combined_risk_score(predictions) ELSE 15
        s1 == IF humidity > 90 THEN s0 + 10
              ELSE IF humidity > 80 THEN s0 + 5
              ELSE s0
        s2 == IF visibility < 5000 THEN s1 + 5 ELSE s1
    IN  RoundDiv(Min(s2, 100), 1)

\* lines 96-135 of predict_disaster_from_location: the returned body
post_response(predictions, w, is_real) ==
    LET risk_score == post_risk_score(predictions, w.humidity, w.visibility)
        flood_risk == display_score(predictions, "flood",
                                    Max(15 * 4, w.humidity), 40)   \* max(1.5, humidity / 40)
        fire_risk == display_score(predictions, "wildfire",
                                   Max(10 * 4, 100 - w.humidity), 40)
        earthquake_risk == display_score(predictions, "earthquake", 25, 10)
        storm_risk == display_score(predictions, "severe_weather",
                                    Max(150, w.wind_speed), 100)
    IN  [status |-> 200,
         overall_risk |-> overall_category(risk_score),
         risk_score |-> risk_score,
         flood_risk |-> Min(flood_risk, 100),
         fire_risk |-> Min(fire_risk, 100),
         earthquake_risk |-> Min(earthquake_risk, 100),
         storm_risk |-> Min(storm_risk, 100),
         confidence |-> 85,
         is_real |-> is_real]

\* mutant: the ladder applied whether or not the list is empty
get_risk_score_always_modified(predictions, temperature, humidity, visibility) ==
    LET s0 == IF predictions # << >> THEN combined_risk_score(predictions) ELSE 15
        s1 == IF visibility < 2000 THEN s0 + 15
              ELSE IF visibility < 5000 THEN s0 + 5
              ELSE s0
        s2 == IF humidity > 90 THEN s1 + 10
              ELSE IF humidity > 80 THEN s1 + 5
              ELSE s1
        s3 == IF temperature > 40 \/ temperature < 0 THEN s2 + 15
              ELSE IF temperature > 35 \/ temperature < 5 THEN s2 + 5
              ELSE s2
    IN  RoundDiv(Min(s3, 100), 1)

\* lines 220-249 of get_disaster_risk
get_risk_score(predictions, temperature, humidity, visibility) ==
    IF predictions # << >> THEN combined_risk_score(predictions)
    ELSE LET s0 == 15
             s1 == IF visibility < 2000 THEN s0 + 15
                   ELSE IF visibility < 5000 THEN s0 + 5
                   ELSE s0
             s2 == IF humidity > 90 THEN s1 + 10
                   ELSE IF humidity > 80 THEN s1 + 5
                   ELSE s1
             s3 == IF temperature > 40 \/ temperature < 0 THEN s2 + 15
                   ELSE IF temperature > 35 \/ temperature < 5 THEN s2 + 5
                   ELSE s2
         IN  RoundDiv(Min(s3, 100), 1)

\* lines 251-286 of get_disaster_risk: the returned body; eq_draw is the value
\* random.uniform(1.0, 3.0) returns, in hundredths
get_response(predictions, w, eq_draw) ==
    LET risk_score == get_risk_score(predictions, w.temperature, w.humidity, w.visibility)
        flood_risk == display_score(predictions, "flood",
                                    Max(15 * 4, w.humidity), 40)
        fire_risk == display_score(predictions, "wildfire",
                                   Max(10 * 4, 100 - w.humidity), 40)
        storm_risk == display_score(predictions, "severe_weather",
                                    Max(150, w.wind_speed), 100)
    IN  [status |-> 200,
         overall_risk |-> overall_category(risk_score),
         risk_score |-> risk_score,
         flood_risk |-> Min(flood_risk, 100),
         fire_risk |-> Min(fire_risk, 100),
         storm_risk |-> Min(storm_risk, 100),
         earthquake_risk |-> RoundDiv(eq_draw, 10),
         predictions |-> predictions,
         confidence |-> 85]

\* lines 162-174 of predict_disaster: the returned body
full_response(predictions) ==
    [status |-> 200,
     predictions |-> predictions,
     confidence_level |-> _calculate_overall_confidence(predictions)]

---------------------------------------------------------------------------
(* The simple weather-only model: calculate_risk of api/predict.py and of   *)
(* api/index.py.  weather_data is the weather service's JSON object, a      *)
(* function from keys to values; wind.speed is in units of 0.5 m/s, scores  *)
(* are tenths, confidence is in hundredths.                                 *)

EmptyDict == [k \in {} |-> 0]
None == [NoneType |-> TRUE]

\* d.get(key, default)
Get(d, key, default) == IF key \in DOMAIN d THEN d[key] ELSE default

\* Python's "not weather_data": None and the empty dict are falsy
Falsy(weather_data) == weather_data = None \/ DOMAIN weather_data = {}

\* lines 18-21 of api/predict.py
simple_locals(weather_data) ==
    [temp |-> Get(Get(weather_data, "main", EmptyDict), "temp", 25),
     humidity |-> Get(Get(weather_data, "main", EmptyDict), "humidity", 60),
     wind_speed |-> Get(Get(weather_data, "wind", EmptyDict), "speed", 20),
     pressure |-> Get(Get(weather_data, "main", EmptyDict), "pressure", 1013)]

\* mutant: low pressure adds 2 to the score as it does to storm_risk
simple_risk_score_pressure_two(temp, humidity, wind_speed, pressure) ==
    30 + (IF temp > 35 \/ temp < 5 THEN 20
          ELSE IF temp > 30 \/ temp < 10 THEN 10 ELSE 0)
       + (IF wind_speed > 40 THEN 20 ELSE IF wind_speed > 30 THEN 10 ELSE 0)
       + (IF humidity < 30 THEN 15 ELSE 0)
       + (IF humidity > 80 THEN 10 ELSE 0)
       + (IF pressure < 1000 THEN 20 ELSE 0)

\* risk_score before the category is chosen (line 58 of api/predict.py)
simple_risk_score(temp, humidity, wind_speed, pressure) ==
    30 + (IF temp > 35 \/ temp < 5 THEN 20
          ELSE IF temp > 30 \/ temp < 10 THEN 10 ELSE 0)
       + (IF wind_speed > 40 THEN 20 ELSE IF wind_speed > 30 THEN 10 ELSE 0)
       + (IF humidity < 30 THEN 15 ELSE 0)
       + (IF humidity > 80 THEN 10 ELSE 0)
       + (IF pressure < 1000 THEN 15 ELSE 0)

simple_storm_risk(wind_speed, pressure) ==
    (IF wind_speed > 40 THEN 80 ELSE IF wind_speed > 30 THEN 60
     ELSE IF wind_speed > 20 THEN 40 ELSE 20)
        + (IF pressure < 1000 THEN 20 ELSE 0)

simple_fire_risk(humidity) ==
    IF humidity < 30 THEN 70 ELSE IF humidity < 50 THEN 40 ELSE 20

\* mutant: the upper flood step taken at 80 % already
simple_flood_risk_inclusive(humidity) ==
    IF humidity >= 80 THEN 60 ELSE IF humidity > 70 THEN 40 ELSE 20

simple_flood_risk(humidity) ==
    IF humidity > 80 THEN 60 ELSE IF humidity > 70 THEN 40 ELSE 20

simple_overall_risk(risk_score) ==
    IF risk_score >= 80 THEN "critical"
    ELSE IF risk_score >= 60 THEN "high"
    ELSE IF risk_score >= 40 THEN "moderate"
    ELSE "low"

\* calculate_risk of api/predict.py; draw is random.uniform(1, 3) in
\* hundredths.  Every score is a sum of multiples of 0.5, which round(x, 1)
\* leaves as it is.
calculate_risk(weather_data, draw) ==
    LET w == simple_locals(weather_data)
        risk_score == simple_risk_score(w.temp, w.humidity, w.wind_speed, w.pressure)
    IN  [overall_risk |-> simple_overall_risk(risk_score),
         risk_score |-> Min(risk_score, 100),
         flood_risk |-> Min(simple_flood_risk(w.humidity), 100),
         fire_risk |-> Min(simple_fire_risk(w.humidity), 100),
         earthquake_risk |-> RoundDiv(draw, 10),
         storm_risk |-> Min(simple_storm_risk(w.wind_speed, w.pressure), 100),
         confidence |-> 85]

\* the fixed assessment of api/index.py lines 86-95 and api/predict.py
\* lines 138-144
fallback_risk ==
    [overall_risk |-> "moderate", risk_score |-> 45, flood_risk |-> 32,
     fire_risk |-> 28, earthquake_risk |-> 15, storm_risk |-> 41,
     confidence |-> 75]

\* mutant: the guard for missing data left out
index_calculate_risk_unguarded(weather_data, draw) ==
    calculate_risk(weather_data, draw)

\* calculate_risk of api/index.py, statement by statement; draw is
\* random.uniform(1, 3) in hundredths
index_calculate_risk(weather_data, draw) ==
    IF Falsy(weather_data) THEN fallback_risk
    ELSE
        LET temp == Get(Get(weather_data, "main", EmptyDict), "temp", 25)
            humidity == Get(Get(weather_data, "main", EmptyDict), "humidity", 60)
            wind_speed == Get(Get(weather_data, "wind", EmptyDict), "speed", 20)
            pressure == Get(Get(weather_data, "main", EmptyDict), "pressure", 1013)
            \* temperature risk
            score1 == IF temp > 35 \/ temp < 5 THEN 30 + 20
                      ELSE IF temp > 30 \/ temp < 10 THEN 30 + 10
                      ELSE 30
            \* storm risk
            storm1 == IF wind_speed > 40 THEN 80
                      ELSE IF wind_speed > 30 THEN 60
                      ELSE IF wind_speed > 20 THEN 40
                      ELSE 20
            score2 == IF wind_speed > 40 THEN score1 + 20
                      ELSE IF wind_speed > 30 THEN score1 + 10
                      ELSE score1
            \* fire risk
            fire_risk == IF humidity < 30 THEN 70 ELSE IF humidity < 50 THEN 40 ELSE 20
            score3 == IF humidity < 30 THEN score2 + 15 ELSE score2
            \* flood risk
            flood_risk == IF humidity > 80 THEN 60 ELSE IF humidity > 70 THEN 40 ELSE 20
            score4 == IF humidity > 80 THEN score3 + 10 ELSE score3
            \* pressure risk
            risk_score == IF pressure < 1000 THEN score4 + 15 ELSE score4
            storm_risk == IF pressure < 1000 THEN storm1 + 20 ELSE storm1
            overall_risk == IF risk_score >= 80 THEN "critical"
                            ELSE IF risk_score >= 60 THEN "high"
                            ELSE IF risk_score >= 40 THEN "moderate"
                            ELSE "low"
        IN  [overall_risk |-> overall_risk,
             risk_score |-> Min(RoundDiv(risk_score, 1), 100),
             flood_risk |-> Min(RoundDiv(flood_risk, 1), 100),
             fire_risk |-> Min(RoundDiv(fire_risk, 1), 100),
             earthquake_risk |-> RoundDiv(draw, 10),
             storm_risk |-> Min(RoundDiv(storm_risk, 1), 100),
             confidence |-> 85]

\* the handlers' result: the risk fields beside success and is_real
simple_response(risk, is_real, model_version) ==
    [status |-> 200, success |-> TRUE, is_real |-> is_real,
     overall_risk |-> risk.overall_risk, risk_score |-> risk.risk_score,
     flood_risk |-> risk.flood_risk, fire_risk |-> risk.fire_risk,
     earthquake_risk |-> risk.earthquake_risk, storm_risk |-> risk.storm_risk,
     confidence |-> risk.confidence, model_version |-> model_version]

\* Request values of handler._get_coordinates: a query-string value is a
\* string, [str |-> s]; a value of the JSON body is a number, [num |-> n],
\* in ten-thousandths of a degree.

\* Python's truth test: None, the empty string and the number 0 are falsy
Truthy(x) ==
    IF x = None THEN FALSE
    ELSE IF "str" \in DOMAIN x THEN x.str # ""
    ELSE x.num # 0

\* float(x) in ten-thousandths of a degree; a string that is no numeral
\* raises ValueError
float(x) ==
    IF "num" \in DOMAIN x THEN [ok |-> TRUE, value |-> x.num]
    ELSE CASE x.str = "0" -> [ok |-> TRUE, value |-> 0]
           [] x.str = "34" -> [ok |-> TRUE, value |-> 340000]
           [] x.str = "-118" -> [ok |-> TRUE, value |-> -1180000]
           [] OTHER -> [ok |-> FALSE, value |-> 0]

\* the Delhi defaults of lines 100-101
default_lat == 286139
default_lon == 772090

\* handler._get_coordinates of api/predict.py: params is parse_qs(query)
\* with the first value of each key, body the decoded JSON object, or None
\* when there is no body or reading it raised
_get_coordinates(command, params, body) ==
    LET lat0 == Get(params, "lat", None)
        lon0 == Get(params, "lon", None)
        read == command = "POST" /\ (lat0 = None \/ lon0 = None) /\ body # None
        lat1 == IF read THEN Get(body, "latitude", Get(body, "lat", lat0)) ELSE lat0
        lon1 == IF read THEN Get(body, "longitude", Get(body, "lon", lon0)) ELSE lon0
        lat == IF Truthy(lat1) THEN float(lat1) ELSE [ok |-> TRUE, value |-> default_lat]
        lon == IF Truthy(lon1) THEN float(lon1) ELSE [ok |-> TRUE, value |-> default_lon]
    IN  IF lat.ok /\ lon.ok
        THEN [error |-> "none", lat |-> lat.value, lon |-> lon.value]
        ELSE [error |-> "ValueError", lat |-> 0, lon |-> 0]

---------------------------------------------------------------------------
(* The environment: requests, weather-service answers and random draws.    *)

Months == 1 .. 12

\* request bodies of POST /predict/disaster-full (PredictionInput);
\* wind_speed in tenths of km/h
PredictionInputs ==
    { [temperature |-> 38, humidity |-> 20, wind_speed |-> 280, pressure |-> 1005,
       latitude |-> 34, longitude |-> -118],
      [temperature |-> 25, humidity |-> 50, wind_speed |-> 50, pressure |-> 1015,
       latitude |-> 0, longitude |-> 0],
      [temperature |-> 25, humidity |-> 60, wind_speed |-> 100, pressure |-> 1013,
       latitude |-> 28, longitude |-> 77],
      [temperature |-> 50, humidity |-> 0, wind_speed |-> 3000, pressure |-> 900,
       latitude |-> 90, longitude |-> 180],
      [temperature |-> -10, humidity |-> 100, wind_speed |-> 0, pressure |-> 1100,
       latitude |-> -90, longitude |-> -180],
      [temperature |-> 30, humidity |-> 95, wind_speed |-> 200, pressure |-> 990,
       latitude |-> 40, longitude |-> 140],
      [temperature |-> 20, humidity |-> 85, wind_speed |-> 120, pressure |-> 1000,
       latitude |-> -40, longitude |-> 170],
      [temperature |-> 35, humidity |-> 40, wind_speed |-> 150, pressure |-> 1010,
       latitude |-> 38, longitude |-> 30],
      [temperature |-> 45, humidity |-> 10, wind_speed |-> 250, pressure |-> 1020,
       latitude |-> 10, longitude |-> 0],
      [temperature |-> 5, humidity |-> 70, wind_speed |-> 300, pressure |-> 1008,
       latitude |-> 50, longitude |-> 10] }

\* coordinates of the location-only requests
Locations ==
    { <<34, -118>>, <<0, 0>>, <<28, 77>>, <<90, 180>>, <<-90, -180>>, <<40, 140>>, <<50, 10>> }

\* what the weather service may answer with status 200 for a location:
\* main.temp, main.humidity, wind.speed in units of 0.5 m/s, main.pressure,
\* visibility in metres
LiveWeather(loc) ==
    CASE loc = <<34, -118>> ->
             { [temp |-> 38, humidity |-> 20, speed |-> 16, pressure |-> 1005, visibility |-> 10000],
               [temp |-> 22, humidity |-> 92, speed |-> 6, pressure |-> 1012, visibility |-> 1500] }
      [] loc = <<0, 0>> ->
             { [temp |-> 25, humidity |-> 50, speed |-> 3, pressure |-> 1015, visibility |-> 10000],
               [temp |-> 25, humidity |-> 50, speed |-> 3, pressure |-> 1015, visibility |-> 1500],
               [temp |-> 28, humidity |-> 85, speed |-> 4, pressure |-> 1016, visibility |-> 4000],
               [temp |-> 26, humidity |-> 95, speed |-> 2, pressure |-> 1020, visibility |-> 8000] }
      [] loc = <<28, 77>> ->
             { [temp |-> 44, humidity |-> 15, speed |-> 10, pressure |-> 1002, visibility |-> 5000],
               [temp |-> 30, humidity |-> 81, speed |-> 20, pressure |-> 998, visibility |-> 4999] }
      [] loc = <<90, 180>> ->
             { [temp |-> -30, humidity |-> 100, speed |-> 167, pressure |-> 900, visibility |-> 0] }
      [] loc = <<-90, -180>> ->
             { [temp |-> -50, humidity |-> 0, speed |-> 0, pressure |-> 1100, visibility |-> 10000] }
      [] loc = <<40, 140>> ->
             { [temp |-> 30, humidity |-> 90, speed |-> 40, pressure |-> 985, visibility |-> 2000] }
      [] loc = <<50, 10>> ->
             { [temp |-> 36, humidity |-> 65, speed |-> 14, pressure |-> 1022, visibility |-> 10000] }

\* the handlers' locals of lines 48-52 and 194-198 before the fetch
default_weather ==
    [temperature |-> 25, humidity |-> 60, wind_speed |-> 100, pressure |-> 1013,
     visibility |-> 10000]

\* lines 60-64 and 205-209: the locals after a parsed answer
\* (speed * 3.6 km/h; visibility / 1000 km is kept in metres)
parsed_weather(a) ==
    [temperature |-> a.temp, humidity |-> a.humidity, wind_speed |-> a.speed * 18,
     pressure |-> a.pressure, visibility |-> a.visibility]

\* lines 60-64 and 205-209 for an answer whose field bad is null: the
\* statement that reads it raises (None * 3.6, None / 1000), the statements
\* before it have already assigned their locals, those after it never run
partly_parsed_weather(a, bad) ==
    IF bad = "speed"
    THEN [default_weather EXCEPT !.temperature = a.temp, !.humidity = a.humidity]
    ELSE [parsed_weather(a) EXCEPT !.visibility = default_weather.visibility]

\* the fields whose null makes the handlers' parsing raise
MalformedFields == {"speed", "visibility"}

\* the fields of main whose null the parsing of lines 60-64 stores without
\* raising: .get returns the None that is there, not its default
NullFields == {"temp", "humidity", "pressure"}

\* the first scorer call of _enhanced_disaster_prediction that computes with
\* the null field: temp and humidity are subtracted from at lines 362 and
\* 365, pressure at line 401
raising_scorer(bad) ==
    IF bad \in {"temp", "humidity"} THEN "_calculate_wildfire_risk"
    ELSE "_calculate_flood_risk"

\* Random draws.  random.uniform(a, b) may return any value of [a, b]; the
\* model draws the two ends of each range, no jitter at all, and the values
\* that put one scorer's result on or next to a cut-off of the code.
ProbeSteps == 1

Cutoffs == {5, 10, 15, 20, 30, 40, 50, 60, 70}

\* probabilities at k * 0.0001 around each cut-off
Probes == { c * (Unit \div 100) + k * (Unit \div 10000) :
                c \in Cutoffs, k \in (0 - ProbeSteps) .. ProbeSteps }

FineJitters(before, amp) == { p - before : p \in { q \in Probes : Abs(q - before) <= amp } }

wildfire_amp == Unit \div 10
flood_amp == (Unit \div 100) * 8
storm_amp == Unit \div 10
earthquake_amp == (Unit \div 100) * 2

NoJitter == [w |-> 0, f |-> 0, s |-> 0, ef |-> 100, ej |-> 0]

CoarseDraws ==
    { [w |-> w, f |-> f, s |-> s, ef |-> e[1], ej |-> e[2]] :
        w \in {0 - wildfire_amp, wildfire_amp},
        f \in {0 - flood_amp, flood_amp},
        s \in {0 - storm_amp, storm_amp},
        e \in { <<70, 0 - earthquake_amp>>, <<100, 0>>, <<130, earthquake_amp>> } }
    \cup { NoJitter }

FineDraws(temp, humidity, wind, pressure, lat, lon, month) ==
    { [NoJitter EXCEPT !.w = j] :
        j \in FineJitters(wildfire_final_risk(temp, humidity, wind, lat, month), wildfire_amp) }
    \cup { [NoJitter EXCEPT !.f = j] :
        j \in FineJitters(flood_final_risk(humidity, pressure, temp, lat, month), flood_amp) }
    \cup { [NoJitter EXCEPT !.s = j] :
        j \in FineJitters(storm_base_risk(wind, pressure, humidity, temp), storm_amp) }
    \cup { [NoJitter EXCEPT !.ej = j] :
        j \in FineJitters(earthquake_base_risk(lat, lon) * (Unit \div 100), earthquake_amp) }

Draws(temp, humidity, wind, pressure, lat, lon, month) ==
    CoarseDraws \cup FineDraws(temp, humidity, wind, pressure, lat, lon, month)

\* values of random.uniform(1.0, 3.0) at line 273, in hundredths
FallbackDraws == {100, 225, 300}

\* answers of the weather service to the simple handlers: every reading on
\* and next to a cut-off of calculate_risk, and objects with keys missing
SimpleReadings ==
    { [main |-> [temp |-> t, humidity |-> h, pressure |-> p], wind |-> [speed |-> v]] :
        t \in {4, 5, 9, 10, 30, 31, 35, 36},
        h \in {29, 30, 49, 50, 70, 71, 80, 81},
        v \in {20, 21, 30, 31, 40, 41},
        p \in {999, 1000} }

PartialReadings ==
    { EmptyDict,
      [main |-> EmptyDict],
      [wind |-> [speed |-> 41]],
      [main |-> [temp |-> 36]],
      [main |-> [humidity |-> 29, pressure |-> 999], wind |-> EmptyDict] }

SimpleWeatherData == SimpleReadings \cup PartialReadings

\* the default coordinates of the simple handlers (Delhi)
SimpleLocations == { <<28, 77>> }

---------------------------------------------------------------------------
(* State.                                                                  *)

VARIABLES
    month,        \* datetime.now().month
    pc,           \* "idle", "fetching" (the handler awaits the weather service), "done",
                  \* "failed" (the request ended in an error response)
    endpoint,     \* the handler that runs or ran last
    coords,       \* the request's <<latitude, longitude>>
    weather,      \* the handler's locals temperature .. visibility
    risks,        \* the four scorer results inside _enhanced_disaster_prediction
    predictions,  \* the list _enhanced_disaster_prediction returned
    response,     \* the returned body
    fetch,        \* how the handler's weather fetch ended: "none" (no fetch yet),
                  \* "failed", "malformed" (parsing raised midway) or "live"
    probe         \* the last two direct calls of a helper: <<[arg, ret], ...>>

vars == <<month, pc, endpoint, coords, weather, risks, predictions, response, fetch, probe>>

NoRisks == [wildfire |-> 0, flood |-> 0, severe_weather |-> 0, earthquake |-> 0]

Init ==
    /\ month \in Months
    /\ pc = "idle"
    /\ endpoint = "none"
    /\ coords = <<0, 0>>
    /\ weather = default_weather
    /\ risks = NoRisks
    /\ predictions = << >>
    /\ response = [status |-> 0]
    /\ fetch = "none"
    /\ probe = << >>

\* the call of _enhanced_disaster_prediction with the draws d
Predict(w, loc, d) ==
    /\ risks' = scorer_locals(w.temperature, w.humidity, w.wind_speed, w.pressure,
                              loc[1], loc[2], month, d)
    /\ predictions' = _enhanced_disaster_prediction(w.temperature, w.humidity,
                              w.wind_speed, w.pressure, loc[1], loc[2], month, d)

DrawsFor(w, loc) ==
    Draws(w.temperature, w.humidity, w.wind_speed, w.pressure, loc[1], loc[2], month)

\* a location-only handler runs to its await of the weather service
Begin(name, loc) ==
    /\ pc = "idle"
    /\ pc' = "fetching"
    /\ endpoint' = name
    /\ coords' = loc
    /\ weather' = default_weather
    /\ risks' = NoRisks
    /\ predictions' = << >>
    /\ response' = [status |-> 0]
    /\ UNCHANGED <<month, fetch, probe>>

\* POST /predict/disaster, lines 40-57
PostDisasterBegin == \E loc \in Locations : Begin("post_disaster", loc)

\* POST /predict/disaster, lines 58-135, the fetch having failed
PostDisasterFallback ==
    /\ pc = "fetching" /\ endpoint = "post_disaster"
    /\ \E d \in DrawsFor(default_weather, coords) :
        /\ Predict(default_weather, coords, d)
        /\ response' = post_response(predictions', default_weather, FALSE)
    /\ pc' = "done"
    /\ fetch' = "failed"
    /\ UNCHANGED <<month, endpoint, coords, weather, probe>>

\* POST /predict/disaster, lines 58-135, the service having answered
PostDisasterLive ==
    /\ pc = "fetching" /\ endpoint = "post_disaster"
    /\ \E a \in LiveWeather(coords) :
        /\ weather' = parsed_weather(a)
        /\ \E d \in DrawsFor(weather', coords) :
            /\ Predict(weather', coords, d)
            /\ response' = post_response(predictions', weather', TRUE)
    /\ pc' = "done"
    /\ fetch' = "live"
    /\ UNCHANGED <<month, endpoint, coords, probe>>

\* POST /predict/disaster, lines 58-135, the service having answered 200
\* with a null field: the except branch of line 67 is entered midway
PostDisasterMalformed ==
    /\ pc = "fetching" /\ endpoint = "post_disaster"
    /\ \E a \in LiveWeather(coords), bad \in MalformedFields :
        /\ weather' = partly_parsed_weather(a, bad)
        /\ \E d \in DrawsFor(weather', coords) :
            /\ Predict(weather', coords, d)
            /\ response' = post_response(predictions', weather', FALSE)
    /\ pc' = "done"
    /\ fetch' = "malformed"
    /\ UNCHANGED <<month, endpoint, coords, probe>>

\* a handler whose scorer raised TypeError on a null argument: the outer
\* except turns it into HTTPException(500, "Prediction service error: ...")
ScorerRaised(a, bad) ==
    /\ weather' = [parsed_weather(a) EXCEPT
                      ![IF bad = "temp" THEN "temperature" ELSE bad] = None]
    /\ risks' = NoRisks
    /\ predictions' = << >>
    /\ probe' = << [arg |-> [function |-> raising_scorer(bad), null |-> bad],
                    ret |-> "TypeError"] >>
    /\ response' = [status |-> 500, detail |-> "Prediction service error"]
    /\ pc' = "failed"
    /\ fetch' = "live"
    /\ UNCHANGED <<month, endpoint, coords>>

\* POST /predict/disaster, lines 58-139, the service having answered 200
\* with main.temp, main.humidity or main.pressure null
PostDisasterNull ==
    /\ pc = "fetching" /\ endpoint = "post_disaster"
    /\ \E a \in LiveWeather(coords), bad \in NullFields : ScorerRaised(a, bad)

\* GET /predict/disaster-risk, lines 189-202
GetDisasterRiskBegin == \E loc \in Locations : Begin("disaster_risk", loc)

\* GET /predict/disaster-risk, lines 203-286, the fetch having failed
GetDisasterRiskFallback ==
    /\ pc = "fetching" /\ endpoint = "disaster_risk"
    /\ \E d \in DrawsFor(default_weather, coords), u \in FallbackDraws :
        /\ Predict(default_weather, coords, d)
        /\ response' = get_response(predictions', default_weather, u)
    /\ pc' = "done"
    /\ fetch' = "failed"
    /\ UNCHANGED <<month, endpoint, coords, weather, probe>>

\* GET /predict/disaster-risk, lines 203-286, the service having answered
GetDisasterRiskLive ==
    /\ pc = "fetching" /\ endpoint = "disaster_risk"
    /\ \E a \in LiveWeather(coords) :
        /\ weather' = parsed_weather(a)
        /\ \E d \in DrawsFor(weather', coords), u \in FallbackDraws :
            /\ Predict(weather', coords, d)
            /\ response' = get_response(predictions', weather', u)
    /\ pc' = "done"
    /\ fetch' = "live"
    /\ UNCHANGED <<month, endpoint, coords, probe>>

\* GET /predict/disaster-risk, lines 203-286, the service having answered
\* 200 with a null field: the except branch of line 211 is entered midway
GetDisasterRiskMalformed ==
    /\ pc = "fetching" /\ endpoint = "disaster_risk"
    /\ \E a \in LiveWeather(coords), bad \in MalformedFields :
        /\ weather' = partly_parsed_weather(a, bad)
        /\ \E d \in DrawsFor(weather', coords), u \in FallbackDraws :
            /\ Predict(weather', coords, d)
            /\ response' = get_response(predictions', weather', u)
    /\ pc' = "done"
    /\ fetch' = "malformed"
    /\ UNCHANGED <<month, endpoint, coords, probe>>

\* GET /predict/disaster-risk, lines 203-289, the service having answered
\* 200 with main.temp, main.humidity or main.pressure null
GetDisasterRiskNull ==
    /\ pc = "fetching" /\ endpoint = "disaster_risk"
    /\ \E a \in LiveWeather(coords), bad \in NullFields : ScorerRaised(a, bad)

\* POST /predict/disaster-full with a required field of PredictionInput
\* missing or not a number: the model class rejects the body (422) and
\* predict_disaster is not entered
PredictDisasterRejected ==
    /\ pc = "idle"
    /\ \E data \in PredictionInputs :
        /\ coords' = <<data.latitude, data.longitude>>
    /\ endpoint' = "disaster_full"
    /\ response' = [status |-> 422, detail |-> "validation error"]
    /\ pc' = "failed"
    /\ UNCHANGED <<month, weather, risks, predictions, fetch, probe>>

\* POST /predict/disaster-full, lines 148-174: no await, one step
PredictDisaster ==
    /\ pc = "idle"
    /\ \E data \in PredictionInputs :
        LET w == [temperature |-> data.temperature, humidity |-> data.humidity,
                  wind_speed |-> data.wind_speed, pressure |-> data.pressure,
                  visibility |-> default_weather.visibility]
            loc == <<data.latitude, data.longitude>>
        IN  /\ coords' = loc
            /\ weather' = w
            /\ \E d \in DrawsFor(w, loc) :
                /\ Predict(w, loc, d)
                /\ response' = full_response(predictions')
    /\ endpoint' = "disaster_full"
    /\ pc' = "done"
    /\ UNCHANGED <<month, fetch, probe>>

\* GET /predict/risk-assessment/{lat}/{lon}, lines 610-634: predict_disaster
\* is awaited with the dict base_conditions; its first statement,
\* data.temperature, raises AttributeError on a dict, predict_disaster's
\* except raises HTTPException(500), and the except Exception of line 633
\* catches that and raises HTTPException(500, "Risk assessment error: ...").
\* No scorer is reached; the four draws of base_conditions are not kept.
GetRiskAssessment ==
    /\ pc = "idle"
    /\ \E loc \in Locations : coords' = loc
    /\ endpoint' = "risk_assessment"
    /\ response' = [status |-> 500, detail |-> "Risk assessment error"]
    /\ pc' = "failed"
    /\ UNCHANGED <<month, weather, risks, predictions, fetch, probe>>

\* a simple handler answers in one step; probe keeps its call of
\* calculate_risk
SimpleAnswer(name, loc, calls, result) ==
    /\ pc' = "done"
    /\ endpoint' = name
    /\ coords' = loc
    /\ probe' = calls
    /\ response' = result
    /\ UNCHANGED <<month, weather, risks, predictions, fetch>>

\* api/predict.py do_GET (do_POST is do_GET), the fetch answered
ApiPredictLive ==
    /\ pc = "idle"
    /\ \E loc \in SimpleLocations, weather_data \in SimpleWeatherData, draw \in FallbackDraws :
            LET risk == calculate_risk(weather_data, draw)
            IN  SimpleAnswer("api_predict", loc,
                             << [arg |-> weather_data, ret |-> risk] >>,
                             simple_response(risk, TRUE, "RuleBased-v1"))

\* api/predict.py do_GET, lines 134-148: urlopen, json.loads or
\* calculate_risk raised
ApiPredictFallback ==
    /\ pc = "idle"
    /\ \E loc \in SimpleLocations :
            SimpleAnswer("api_predict", loc, << >>,
                         simple_response(fallback_risk, FALSE, "fallback"))

\* api/index.py predict_disaster_risk, fetch_weather returned the object
ApiIndexLive ==
    /\ pc = "idle"
    /\ \E loc \in SimpleLocations, weather_data \in SimpleWeatherData, draw \in FallbackDraws :
            LET risk == index_calculate_risk(weather_data, draw)
            IN  SimpleAnswer("api_index", loc,
                             << [arg |-> weather_data, ret |-> risk] >>,
                             simple_response(risk, TRUE, "RuleBased-v1"))

\* api/index.py predict_disaster_risk, fetch_weather returned (None, False)
ApiIndexFallback ==
    /\ pc = "idle"
    /\ \E loc \in SimpleLocations :
            \* the guard returns before random.uniform is called
            LET risk == index_calculate_risk(None, 100)
            IN  SimpleAnswer("api_index", loc,
                             << [arg |-> None, ret |-> risk] >>,
                             simple_response(risk, FALSE, "RuleBased-v1"))

\* the response is sent and the call's locals are gone
Return ==
    /\ pc \in {"done", "failed"}
    /\ pc' = "idle"
    /\ endpoint' = "none"
    /\ coords' = <<0, 0>>
    /\ weather' = default_weather
    /\ risks' = NoRisks
    /\ predictions' = << >>
    /\ response' = [status |-> 0]
    /\ fetch' = "none"
    /\ probe' = << >>
    /\ UNCHANGED month

Next ==
    \/ PostDisasterBegin
    \/ PostDisasterFallback
    \/ PostDisasterLive
    \/ PostDisasterMalformed
    \/ PostDisasterNull
    \/ GetDisasterRiskBegin
    \/ GetDisasterRiskFallback
    \/ GetDisasterRiskLive
    \/ GetDisasterRiskMalformed
    \/ GetDisasterRiskNull
    \/ PredictDisaster
    \/ PredictDisasterRejected
    \/ GetRiskAssessment
    \/ ApiPredictLive
    \/ ApiPredictFallback
    \/ ApiIndexLive
    \/ ApiIndexFallback
    \/ Return

Spec == Init /\ [][Next]_vars

---------------------------------------------------------------------------
(* The helpers called on their own, as a unit test calls them: no request  *)
(* is in progress, probe keeps the last two calls.                         *)

\* arguments: 0, 1, and the probabilities on and next to each cut-off
ProbabilityGrid == Probes \cup {0, Unit}

Called(arg, ret) ==
    /\ pc = "idle"
    /\ probe' = (IF probe = << >> THEN << >> ELSE << probe[Len(probe)] >>)
                    \o << [arg |-> arg, ret |-> ret] >>
    /\ UNCHANGED <<month, pc, endpoint, coords, weather, risks, predictions, response, fetch>>

SeverityCall == \E p \in ProbabilityGrid : Called(p, _get_severity_level(p))

SeverityInit == Init /\ month = 1

SeveritySpec == SeverityInit /\ [][SeverityCall]_vars

\* a call of which only the result matters: probe keeps this call alone
Returned(arg, ret) ==
    /\ pc = "idle"
    /\ probe' = << [arg |-> arg, ret |-> ret] >>
    /\ UNCHANGED <<month, pc, endpoint, coords, weather, risks, predictions, response, fetch>>

\* _calculate_overall_confidence reads nothing of an entry but its probability:
\* the lists hold up to MaxPredictions entries whose published probabilities
\* are 0, 1, the synthetic entry's 0.05 and the values on and just below 0.3, 0.6
MaxPredictions == 3
ConfidenceProbabilities == {0, 50, 299, 300, 599, 600, 1000}
ConfidenceEntries ==
    { [low_risk_entry EXCEPT !.probability = p] : p \in ConfidenceProbabilities }
ConfidenceLists ==
    UNION { [1..n -> ConfidenceEntries] : n \in 0..MaxPredictions }

ConfidenceCall ==
    \E l \in ConfidenceLists : Returned(l, _calculate_overall_confidence(l))

ConfidenceSpec == SeverityInit /\ [][ConfidenceCall]_vars

\* the zone loop of _calculate_earthquake_risk, called on the coordinates on
\* and one degree off every edge of every rectangle, the poles, the date line
\* and the origin
ZoneLatitudes == {-90, -46, -45, -35, -34, 0, 31, 32, 34, 35, 36, 42, 43, 45, 46, 90}
ZoneLongitudes ==
    {-180, -126, -125, -118, -114, -113, 0, 24, 25, 35, 36, 134, 135, 145, 146,
     164, 165, 180}

EarthquakeBaseCall ==
    \E lat \in ZoneLatitudes, lon \in ZoneLongitudes :
        Returned(<<lat, lon>>, earthquake_base_risk(lat, lon))

EarthquakeBaseSpec == SeverityInit /\ [][EarthquakeBaseCall]_vars

\* the humidity_factor locals of the flood and the storm scorer, for every
\* whole relative humidity
Humidities == 0..100

HumidityFactorCall ==
    \E humidity \in Humidities :
        Returned(humidity, [flood |-> flood_humidity_factor(humidity),
                            storm |-> storm_humidity_factor(humidity)])

HumidityFactorSpec == SeverityInit /\ [][HumidityFactorCall]_vars

\* _calculate_wildfire_risk called once on arguments chosen beforehand: the
\* factors below, at and above their clamps, the latitudes on and next to
\* the edges of the bands, every month, and the jitter at its ends and at 0
WildfireArguments ==
    { [temp |-> t, humidity |-> h, wind |-> w, lat |-> l, jitter |-> j] :
        t \in {10, 20, 35, 50},
        h \in {0, 35, 70, 100},
        w \in {0, 125, 250, 400},
        l \in {-90, -51, -50, -30, -29, -10, -9, 0, 9, 10, 29, 30, 50, 51, 90},
        j \in {0 - wildfire_amp, 0, wildfire_amp} }

\* the call is about to be made
Pending(Arguments) ==
    /\ month \in Months
    /\ pc = "idle"
    /\ endpoint = "none"
    /\ coords = <<0, 0>>
    /\ weather = default_weather
    /\ risks = NoRisks
    /\ predictions = << >>
    /\ response = [status |-> 0]
    /\ fetch = "none"
    /\ probe \in { << [arg |-> a, called |-> FALSE, ret |-> 0] >> : a \in Arguments }

\* the pending call returns ret
Returns(ret) ==
    /\ pc = "idle"
    /\ probe # << >>
    /\ ~probe[1].called
    /\ probe' = << [probe[1] EXCEPT !.called = TRUE, !.ret = ret] >>
    /\ UNCHANGED <<month, pc, endpoint, coords, weather, risks, predictions, response, fetch>>

WildfireInit == Pending(WildfireArguments)

WildfireCall ==
    /\ probe # << >>
    /\ LET a == probe[1].arg
       IN  Returns(_calculate_wildfire_risk(a.temp, a.humidity, a.wind, a.lat,
                                            month, a.jitter))

WildfireSpec == WildfireInit /\ [][WildfireCall]_vars

\* lines 333-335: _calculate_earthquake_risk called once on a coordinate on or
\* next to a rectangle edge, with the ends and the middle of both draws, and
\* the inclusion test applied to its result
EarthquakeArguments ==
    { [lat |-> lat, lon |-> lon, fault_distance_factor |-> ef, jitter |-> ej] :
        lat \in ZoneLatitudes, lon \in ZoneLongitudes,
        ef \in {70, 100, 130},
        ej \in {0 - earthquake_amp, 0, earthquake_amp} }

EarthquakeInit == Pending(EarthquakeArguments)

EarthquakeCall ==
    /\ probe # << >>
    /\ LET a == probe[1].arg
           earthquake_risk == _calculate_earthquake_risk(a.lat, a.lon,
                                  a.fault_distance_factor, a.jitter)
       IN  Returns([earthquake_risk |-> earthquake_risk,
                    included |-> earthquake_threshold(earthquake_risk)])

EarthquakeSpec == EarthquakeInit /\ [][EarthquakeCall]_vars

\* both copies of calculate_risk called on the same weather object with the
\* same value of random.uniform(1, 3)
CopiesArguments ==
    { [weather_data |-> weather_data, draw |-> draw] :
        weather_data \in SimpleWeatherData, draw \in FallbackDraws }

CopiesInit == Pending(CopiesArguments)

CopiesCall ==
    /\ probe # << >>
    /\ LET a == probe[1].arg
       IN  Returns([predict |-> calculate_risk(a.weather_data, a.draw),
                    index |-> index_calculate_risk(a.weather_data, a.draw)])

CopiesSpec == CopiesInit /\ [][CopiesCall]_vars

\* handler._get_coordinates called once on a request: GET or POST, a query
\* with or without lat and lon, and a JSON body with or without each of its
\* four keys (None: no body)
QueryValues == { [str |-> "0"], [str |-> "34"], [str |-> "-118"], [str |-> "north"] }
BodyValues == { [num |-> 0], [num |-> 340000] }

CoordinateRequests ==
    { [command |-> command, params |-> params, body |-> body] :
        command \in {"GET", "POST"},
        params \in UNION { [S -> QueryValues] : S \in SUBSET {"lat", "lon"} },
        body \in {None} \cup
                 UNION { [S -> BodyValues] :
                           S \in SUBSET {"latitude", "longitude", "lat", "lon"} } }

CoordinatesInit == Pending(CoordinateRequests)

CoordinatesCall ==
    /\ probe # << >>
    /\ LET a == probe[1].arg
       IN  Returns(_get_coordinates(a.command, a.params, a.body))

CoordinatesSpec == CoordinatesInit /\ [][CoordinatesCall]_vars

---------------------------------------------------------------------------
(* Properties.                                                             *)

Hazards == {"wildfire", "flood", "severe_weather", "earthquake"}

\* a handler that calls _enhanced_disaster_prediction has answered
Done == pc = "done" /\ endpoint \in {"post_disaster", "disaster_risk", "disaster_full"}
PathA == Done /\ endpoint = "post_disaster"
PathB == Done /\ endpoint = "disaster_risk"
Enhanced == PathA \/ PathB

Entries == { predictions[i] : i \in DOMAIN predictions }
HasType(t) == \E e \in Entries : e.type = t
EntryOf(t) == CHOOSE e \in Entries : e.type = t

\* C1: every scorer result lies in [0, 1] and so does every published
\* probability, whatever the reading, the month and the draws.
C1_ProbabilitiesInUnitInterval ==
    /\ \A h \in Hazards : 0 <= risks[h] /\ risks[h] <= Unit
    /\ \A e \in Entries : 0 <= e.probability /\ e.probability <= 1000

\* an out-of-range reading (pressure 900) whose flood sum is far above 1 and
\* whose earthquake sum is below 0: both are clamped
C1_Witness ==
    /\ Done /\ weather.pressure = 900
    /\ flood_final_risk(weather.humidity, weather.pressure, weather.temperature,
                        coords[1], month) > 2 * Unit
    /\ risks.flood = Unit
    /\ risks.earthquake = 0

\* C2: on both enhanced paths the overall score and the four display scores
\* lie in [0, 10].
C2_ScoresInRange ==
    Enhanced =>
        \A f \in {"risk_score", "flood_risk", "fire_risk", "storm_risk", "earthquake_risk"} :
            0 <= response[f] /\ response[f] <= 100

\* Path A with the modifiers pushing the sum above 10
C2_Witness ==
    /\ PathA
    /\ combined_risk_score(predictions) + 15 > 100
    /\ weather.humidity > 90 /\ weather.visibility < 5000
    /\ response.risk_score = 100

\* C3: on both enhanced paths the category matches the returned score:
\* critical iff >= 7, high iff in [5, 7), moderate iff in [3, 5), low iff < 3.
C3_CategoryMatchesScore ==
    Enhanced =>
        /\ response.overall_risk = "critical" <=> response.risk_score >= 70
        /\ response.overall_risk = "high" <=>
              (50 <= response.risk_score /\ response.risk_score < 70)
        /\ response.overall_risk = "moderate" <=>
              (30 <= response.risk_score /\ response.risk_score < 50)
        /\ response.overall_risk = "low" <=> response.risk_score < 30

\* Path A, the modifiers lifting the score from below 7 to exactly 7
C3_Witness ==
    /\ PathA
    /\ combined_risk_score(predictions) < 70
    /\ response.risk_score = 70
    /\ response.overall_risk = "critical"

SeverityRank(label) ==
    CASE label = "minimal" -> 0
      [] label = "low" -> 1
      [] label = "moderate" -> 2
      [] label = "high" -> 3
      [] label = "critical" -> 4

\* C4: _get_severity_level(p) is critical if p >= 0.7, high if p >= 0.5,
\* moderate if p >= 0.3, low if p >= 0.1, else minimal (lower boundaries
\* inclusive), and of two arguments the larger never gets the lower label.
C4_SeverityOfProbability ==
    /\ \A i \in DOMAIN probe :
          LET p == probe[i].arg
          IN  probe[i].ret = (IF 10 * p >= 7 * Unit THEN "critical"
                              ELSE IF 10 * p >= 5 * Unit THEN "high"
                              ELSE IF 10 * p >= 3 * Unit THEN "moderate"
                              ELSE IF 10 * p >= 1 * Unit THEN "low"
                              ELSE "minimal")
    /\ (Len(probe) = 2 /\ probe[1].arg <= probe[2].arg) =>
          SeverityRank(probe[1].ret) <= SeverityRank(probe[2].ret)

\* 0.4999 labelled moderate, then 0.5 labelled high
C4_Witness ==
    /\ Len(probe) = 2
    /\ probe[1].arg = (Unit \div 10000) * 4999 /\ probe[1].ret = "moderate"
    /\ 2 * probe[2].arg = Unit /\ probe[2].ret = "high"

\* the shared mapping applied to a published probability (per-mille)
LabelOfPublished(m) ==
    IF m >= 700 THEN "critical"
    ELSE IF m >= 500 THEN "high"
    ELSE IF m >= 300 THEN "moderate"
    ELSE IF m >= 100 THEN "low"
    ELSE "minimal"

\* C5: the severity of every emitted prediction is the label the mapping
\* gives to its published probability (the value rounded to 3 decimals).
C5_SeverityMatchesPublished ==
    \A e \in Entries : e.severity = LabelOfPublished(e.probability)

\* C6: a hazard is in the list iff its scorer result is strictly above its
\* threshold (0.1, 0.1, 0.15, 0.05).
C6_IncludedIffAboveThreshold ==
    Done =>
        /\ HasType("wildfire") <=> 10 * risks.wildfire > Unit
        /\ HasType("flood") <=> 10 * risks.flood > Unit
        /\ HasType("severe_weather") <=> 100 * risks.severe_weather > 15 * Unit
        /\ HasType("earthquake") <=> 100 * risks.earthquake > 5 * Unit

\* a wildfire result of exactly 0.1 left out, a flood result of exactly 0.1
\* left out in some state too (see C6_WitnessFlood)
C6_Witness ==
    /\ Done
    /\ 10 * risks.wildfire = Unit
    /\ ~HasType("wildfire")

C6_WitnessFlood ==
    /\ Done
    /\ risks.flood = (Unit \div 10000) * 1001
    /\ HasType("flood")

\* C7: the list is the single literal low_risk entry iff no hazard clears its
\* threshold, and a low_risk entry is never listed beside another entry.
C7_LowRiskEntry ==
    Done =>
        /\ (predictions =
              << [type |-> "low_risk", probability |-> 50, severity |-> "minimal",
                  time_window |-> "current", factors |-> <<"stable_conditions">>,
                  recommended_actions |-> <<"maintain_normal_vigilance",
                                            "monitor_weather_updates">>] >>)
           <=> (/\ 10 * risks.wildfire <= Unit
                /\ 10 * risks.flood <= Unit
                /\ 100 * risks.severe_weather <= 15 * Unit
                /\ 100 * risks.earthquake <= 5 * Unit)
        /\ HasType("low_risk") => Len(predictions) = 1

\* no hazard clears its threshold, one of them exactly on it
C7_Witness ==
    /\ Done
    /\ HasType("low_risk")
    /\ 10 * risks.flood = Unit

ProbSum == SumProb(predictions)
ProbMax == MaxProb(predictions)

\* round(max(1.5, 10 * (0.6 * max_prob + 0.4 * avg_prob)), 1), in tenths
BaseScore ==
    LET n == Len(predictions)
    IN  RoundDiv(Max(1500 * n, 6 * ProbMax * n + 4 * ProbSum), 100 * n)

\* C8: Path A: risk_score = min(10, base + h + v), h = 1.0 if humidity > 90,
\* 0.5 if 80 < humidity <= 90, else 0; v = 0.5 if visibility < 5 km, else 0;
\* never below 1.5.
C8_PathAScore ==
    PathA =>
        LET h == IF weather.humidity > 90 THEN 10
                 ELSE IF weather.humidity > 80 /\ weather.humidity <= 90 THEN 5
                 ELSE 0
            v == IF weather.visibility < 5000 THEN 5 ELSE 0
        IN  /\ predictions # << >>
            /\ response.risk_score = Min(100, BaseScore + h + v)
            /\ response.risk_score >= 15

\* humidity above 90 and low visibility, the sum still below the clamp
C8_Witness ==
    /\ PathA
    /\ weather.humidity > 90 /\ weather.visibility < 5000
    /\ response.risk_score = BaseScore + 15
    /\ response.risk_score < 100

\* C9: Path B: the ladder is added to 1.5 when and only when the list is
\* empty; with a non-empty list the score is the base score, unmodified.
C9_PathBScore ==
    PathB =>
        IF predictions = << >>
        THEN LET v == IF weather.visibility < 2000 THEN 15
                      ELSE IF weather.visibility < 5000 THEN 5 ELSE 0
                 h == IF weather.humidity > 90 THEN 10
                      ELSE IF weather.humidity > 80 THEN 5 ELSE 0
                 t == IF weather.temperature > 40 \/ weather.temperature < 0 THEN 15
                      ELSE IF weather.temperature > 35 \/ weather.temperature < 5 THEN 5
                      ELSE 0
             IN  response.risk_score = Min(100, 15 + v + h + t)
        ELSE response.risk_score = BaseScore

\* fog, humidity above 90: Path A would add 1.5, Path B adds nothing
C9_Witness ==
    /\ PathB
    /\ weather.visibility < 2000 /\ weather.humidity > 90
    /\ predictions # << >>
    /\ response.risk_score = BaseScore
    /\ response.risk_score < 85

\* C10: on both enhanced paths each of the flood, fire and storm display
\* scores is min(10, round(10 * probability, 1)) of the matching entry when
\* there is one, else the clamped, rounded fallback.
C10_DisplayScores ==
    Enhanced =>
        /\ response.flood_risk =
              IF HasType("flood")
              THEN Min(100, RoundDiv(EntryOf("flood").probability, 10))
              ELSE Min(100, RoundDiv(Max(600, 10 * weather.humidity), 40))
        /\ response.fire_risk =
              IF HasType("wildfire")
              THEN Min(100, RoundDiv(EntryOf("wildfire").probability, 10))
              ELSE Min(100, RoundDiv(Max(400, 10 * (100 - weather.humidity)), 40))
        /\ response.storm_risk =
              IF HasType("severe_weather")
              THEN Min(100, RoundDiv(EntryOf("severe_weather").probability, 10))
              ELSE Min(100, RoundDiv(Max(150, weather.wind_speed), 10))

\* a wildfire entry shown as fire_risk beside a flood fallback above its floor
C10_Witness ==
    /\ Enhanced
    /\ HasType("wildfire") /\ response.fire_risk > 10
    /\ ~HasType("flood") /\ response.flood_risk > 15

\* C11: on both enhanced paths the earthquake display score is ten times the
\* probability of the earthquake entry, rounded to one decimal, whenever the
\* list holds an earthquake entry, and a value in [1, 3] only when it holds
\* none.
C11_EarthquakeDisplayScore ==
    Enhanced =>
        IF HasType("earthquake")
        THEN response.earthquake_risk =
                 Min(100, RoundDiv(EntryOf("earthquake").probability, 10))
        ELSE 10 <= response.earthquake_risk /\ response.earthquake_risk <= 30

\* C12: _calculate_overall_confidence returns high if the largest probability
\* of the list is >= 0.6, medium if it is >= 0.3 and < 0.6, and low otherwise,
\* which includes the empty list and the lone synthetic low_risk entry.
C12_ConfidenceOfMaximum ==
    \A c \in DOMAIN probe :
        LET l == probe[c].arg
            AtLeast(t) == \E i \in DOMAIN l : l[i].probability >= t
        IN  /\ probe[c].ret = "high" <=> AtLeast(600)
            /\ probe[c].ret = "medium" <=> (AtLeast(300) /\ ~AtLeast(600))
            /\ probe[c].ret = "low" <=> ~AtLeast(300)
            /\ l \in {<< >>, <<low_risk_entry>>} => probe[c].ret = "low"

\* the largest probability is not the first one: 0.05 then 0.6 gives high
C12_Witness ==
    /\ probe # << >>
    /\ Len(probe[1].arg) = 2
    /\ probe[1].arg[1] = low_risk_entry
    /\ probe[1].arg[2].probability = 600
    /\ probe[1].ret = "high"

\* C13: the base risk of _calculate_earthquake_risk, before the multiplier
\* and the jitter, is 0.02 outside every zone rectangle and otherwise the
\* largest risk of the zones whose rectangle, edges included, holds the
\* coordinate; (36, -118) has at least 0.4 and (0, 0) exactly 0.02.
C13_EarthquakeBaseRisk ==
    \A c \in DOMAIN probe :
        LET lat == probe[c].arg[1]
            lon == probe[c].arg[2]
            base_risk == probe[c].ret
            inside == { i \in DOMAIN risk_zones :
                          /\ risk_zones[i].lat_range[1] <= lat
                          /\ lat <= risk_zones[i].lat_range[2]
                          /\ risk_zones[i].lon_range[1] <= lon
                          /\ lon <= risk_zones[i].lon_range[2] }
        IN  /\ inside = {} => base_risk = 2
            /\ inside # {} =>
                  /\ \E i \in inside : base_risk = risk_zones[i].risk
                  /\ \A i \in inside : base_risk >= risk_zones[i].risk
            /\ (lat = 36 /\ lon = -118) => base_risk >= 40
            /\ (lat = 0 /\ lon = 0) => base_risk = 2

\* the north-east corner of the California rectangle is inside it
C13_Witness ==
    /\ probe # << >>
    /\ probe[1].arg = <<42, -114>>
    /\ probe[1].ret = 40

\* C14: the humidity factor of the flood scorer is (humidity - 50) / 40 and
\* that of the storm scorer (humidity - 60) / 30, each clamped to [0, 1]: for
\* every humidity the factor lies in [0, 1], so that low humidity subtracts
\* nothing from the weighted sum.
C14_HumidityFactorsClamped ==
    \A c \in DOMAIN probe :
        LET humidity == probe[c].arg
        IN  /\ probe[c].ret.flood =
                  Max(0, Min(Unit, (humidity - 50) * (Unit \div 40)))
            /\ probe[c].ret.storm =
                  Max(0, Min(Unit, (humidity - 60) * (Unit \div 30)))
            /\ 0 <= probe[c].ret.flood /\ probe[c].ret.flood <= Unit
            /\ 0 <= probe[c].ret.storm /\ probe[c].ret.storm <= Unit

\* the hot, dry, windy reading of the first end-to-end scenario, assessed
HotDryReading ==
    /\ Done
    /\ coords = <<34, -118>>
    /\ weather.temperature = 38 /\ weather.humidity = 20
    /\ weather.wind_speed = 280 /\ weather.pressure = 1005

MildReading ==
    /\ Done
    /\ coords = <<0, 0>>
    /\ weather.temperature = 25 /\ weather.humidity = 50
    /\ weather.wind_speed = 50 /\ weather.pressure = 1015

\* C16 as stated: for the reading 25 C, 50 %, 5 km/h, 1015 hPa at (0, 0), in
\* every month and for every jitter, all four probabilities are at or below
\* their thresholds and the list is exactly the synthetic low_risk entry.
C16_MildLowRiskOnly ==
    MildReading =>
        /\ ~wildfire_threshold(risks.wildfire)
        /\ ~flood_threshold(risks.flood)
        /\ ~storm_threshold(risks.severe_weather)
        /\ ~earthquake_threshold(risks.earthquake)
        /\ predictions = <<low_risk_entry>>

\* C16 amended: for that reading the earthquake probability is at or below
\* its threshold in every month and for every draw, and no entry is above
\* 0.33 or more severe than moderate; the list is exactly the low_risk entry
\* only when the flood jitter is negative, and from May to October a flood
\* entry is always present.
C16_MildMostlyLow ==
    MildReading =>
        /\ ~earthquake_threshold(risks.earthquake)
        /\ ~HasType("earthquake")
        /\ \A e \in Entries :
              /\ e.probability <= 330
              /\ e.severity \in {"minimal", "low", "moderate"}
        /\ month \in 5..10 => HasType("flood")
        /\ predictions = <<low_risk_entry>> =>
              /\ month \notin 5..10
              /\ risks.flood < flood_final_risk(50, 1015, 25, 0, month)

\* January, every jitter at its lowest: nothing above its threshold
C16_Witness ==
    /\ MildReading
    /\ month = 1
    /\ predictions = <<low_risk_entry>>

\* July, no jitter: wildfire 0.22, flood 0.25, neither at or below 0.1
C16_WitnessJuly ==
    /\ MildReading
    /\ month = 7
    /\ risks.flood = flood_final_risk(50, 1015, 25, 0, 7)
    /\ HasType("wildfire") /\ HasType("flood") /\ ~HasType("severe_weather")

\* a simple handler has answered; probe holds its call of calculate_risk
SimplePath == pc = "done" /\ endpoint \in {"api_predict", "api_index"}

\* C18 as stated: every assessment of the numeric-confidence paths, the two
\* enhanced handlers and calculate_risk of api/predict.py and api/index.py,
\* carries confidence 0.85, missing or empty weather data included.
C18_ConfidenceAlways85 ==
    /\ Enhanced => response.confidence = 85
    /\ SimplePath => \A c \in DOMAIN probe : probe[c].ret.confidence = 85

\* C18 amended: the enhanced handlers always answer with confidence 0.85, and
\* so does calculate_risk whenever it scores a reading; calculate_risk of
\* api/index.py returns confidence 0.75 for weather data that is None or
\* empty.
C18_ConfidenceOfScored ==
    /\ Enhanced => response.confidence = 85
    /\ SimplePath =>
          \A c \in DOMAIN probe :
              LET weather_data == probe[c].arg
                  missing == weather_data = None \/ weather_data = EmptyDict
              IN  probe[c].ret.confidence =
                      IF endpoint = "api_index" /\ missing THEN 75 ELSE 85

\* api/index.py, the service answered 200 with the empty object
C18_Witness ==
    /\ SimplePath
    /\ endpoint = "api_index"
    /\ probe # << >>
    /\ probe[1].arg = EmptyDict
    /\ response.is_real
    /\ response.confidence = 75

\* C19: calculate_risk returns a category that matches the returned score
\* (critical from 8, high from 6, moderate from 4, else low) and a score and
\* flood, fire and storm scores in [0, 10]; the score before the clamp never
\* exceeds 10, so the clamp changes nothing.
C19_SimpleCategoryAndRange ==
    SimplePath =>
        /\ response.overall_risk = "critical" <=> response.risk_score >= 80
        /\ response.overall_risk = "high" <=>
              (60 <= response.risk_score /\ response.risk_score < 80)
        /\ response.overall_risk = "moderate" <=>
              (40 <= response.risk_score /\ response.risk_score < 60)
        /\ response.overall_risk = "low" <=> response.risk_score < 40
        /\ \A f \in {"risk_score", "flood_risk", "fire_risk", "storm_risk"} :
              0 <= response[f] /\ response[f] <= 100
        /\ \A c \in DOMAIN probe :
              LET w == simple_locals(probe[c].arg)
                  raw == simple_risk_score(w.temp, w.humidity, w.wind_speed, w.pressure)
              IN  probe[c].ret # fallback_risk =>
                      /\ raw <= 100
                      /\ probe[c].ret.risk_score = raw
                      /\ response.risk_score = raw

\* heat, gale, dry air and low pressure together: exactly 10, critical
C19_Witness ==
    /\ SimplePath
    /\ probe # << >>
    /\ probe[1].arg = [main |-> [temp |-> 36, humidity |-> 29, pressure |-> 999],
                        wind |-> [speed |-> 41]]
    /\ response.risk_score = 100
    /\ response.storm_risk = 100
    /\ response.overall_risk = "critical"

\* C20: on POST /predict/disaster and GET /predict/disaster-risk, whenever
\* the weather fetch fails, by its status or by an exception raised at any
\* point of fetching or parsing, the reading handed to the scorers is exactly
\* the defaults 25 C, 60 %, 10 km/h, 1013 hPa, visibility 10 km, and the
\* POST answer says is_real only if every field came from the live answer.
C20_FailedFetchUsesDefaults ==
    Enhanced =>
        /\ fetch \in {"failed", "malformed"} => weather = default_weather
        /\ (PathA /\ response.is_real) => fetch = "live"

\* a request has ended in an error response
Failed == pc = "failed"

\* C21: a reading with a missing or non-numeric required field is rejected as
\* invalid input before scoring begins: no scorer is called with a
\* non-numeric argument, and the error is an input-validation error, not a
\* generic failure raised inside a scorer.
C21_InvalidReadingRejected ==
    Failed =>
        /\ probe = << >>
        /\ response.status = 422

\* C23: with the jitter j fixed, _calculate_wildfire_risk returns
\* (0.3 * max(0, (temp - 20) / 30) + 0.4 * max(0, (70 - humidity) / 70)
\*  + 0.3 * min(1, wind / 25)) * L * S + j clamped to [0, 1], where L is 1.3
\* for 30 <= |lat| <= 50, 0.7 for |lat| < 10 and 1.0 otherwise, and S is 1.4
\* in months 6-9, 0.6 in months 12, 1, 2 and 1.0 otherwise.
C23_WildfireFormula ==
    \A c \in DOMAIN probe :
        probe[c].called =>
            LET a == probe[c].arg
                tf == IF a.temp > 20 THEN (a.temp - 20) * (Unit \div 30) ELSE 0
                hf == IF a.humidity < 70 THEN (70 - a.humidity) * (Unit \div 70) ELSE 0
                wf == IF a.wind < 250 THEN a.wind * (Unit \div 250) ELSE Unit
                abs_lat == IF a.lat < 0 THEN 0 - a.lat ELSE a.lat
                L == IF 30 <= abs_lat /\ abs_lat <= 50 THEN 13
                     ELSE IF abs_lat < 10 THEN 7 ELSE 10
                S == IF month \in 6..9 THEN 14
                     ELSE IF month \in {12, 1, 2} THEN 6 ELSE 10
                sum == ((3 * tf + 4 * hf + 3 * wf) \div 1000) * L * S + a.jitter
            IN  probe[c].ret = (IF sum < 0 THEN 0 ELSE IF sum > Unit THEN Unit ELSE sum)

\* latitude -50, the edge of the band, in July: 0.5 * 0.3 * 1.3 * 1.4, unclamped
C23_Witness ==
    /\ probe # << >>
    /\ probe[1].called
    /\ probe[1].arg = [temp |-> 35, humidity |-> 70, wind |-> 0, lat |-> -50,
                        jitter |-> 0]
    /\ month = 7
    /\ probe[1].ret = (Unit \div 10000) * 2730

\* the three action lists of each hazard, bottom tier first
ActionTiers(type) ==
    CASE type = "wildfire" ->
           << <<"monitor_conditions", "maintain_fire_safety_measures">>,
              <<"increase_fire_watch", "prepare_evacuation_routes", "limit_outdoor_activities">>,
              <<"evacuate_high_risk_areas", "emergency_services_alert", "fire_suppression_ready">> >>
      [] type = "flood" ->
           << <<"monitor_water_levels", "check_drainage_systems">>,
              <<"flood_watch_active", "secure_loose_items", "avoid_low_areas">>,
              <<"evacuate_flood_zones", "sandbag_operations", "emergency_shelters_open">> >>
      [] type = "severe_weather" ->
           << <<"normal_weather_precautions", "stay_informed">>,
              <<"weather_watch", "secure_outdoor_items", "monitor_updates">>,
              <<"severe_weather_warning", "seek_indoor_shelter", "avoid_travel">> >>
      [] type = "earthquake" ->
           << <<"basic_earthquake_preparedness", "know_safety_procedures">>,
              <<"earthquake_awareness", "emergency_kit_ready", "building_inspections">>,
              <<"earthquake_preparedness_high", "secure_heavy_objects", "review_evacuation_plans">> >>

\* the tier (1 bottom, 2 middle, 3 top) the claim gives a probability p
TierOf(type, p) ==
    LET top == IF type = "earthquake" THEN 4 ELSE 6
        middle == IF type = "earthquake" THEN 2 ELSE 3
    IN  IF 10 * p >= top * Unit THEN 3
        ELSE IF 10 * p >= middle * Unit THEN 2
        ELSE 1

\* C24: the recommended_actions of every included hazard is one of the
\* hazard's three fixed lists of 2 or 3 tags, chosen by the hazard's
\* probability p: top from 0.6, middle from 0.3, else bottom (0.4 and 0.2 for
\* earthquake); so severity critical carries the top list, and a wildfire,
\* flood or storm entry of severity low the bottom list.
C24_ActionsByTier ==
    Done =>
        \A e \in Entries :
            e.type \in Hazards =>
                /\ e.recommended_actions = ActionTiers(e.type)[TierOf(e.type, risks[e.type])]
                /\ Len(e.recommended_actions) \in {2, 3}
                /\ e.severity = "critical" =>
                      e.recommended_actions = ActionTiers(e.type)[3]
                /\ (e.severity = "low" /\ e.type # "earthquake") =>
                      e.recommended_actions = ActionTiers(e.type)[1]

\* an earthquake entry at 0.5: severity high, top tier since 0.5 >= 0.4
C24_Witness ==
    /\ Done
    /\ HasType("earthquake")
    /\ 2 * risks.earthquake = Unit
    /\ EntryOf("earthquake").recommended_actions = ActionTiers("earthquake")[3]

\* a wildfire result of exactly 0.6 carries the top list
C24_WitnessBoundary ==
    /\ Done
    /\ HasType("wildfire")
    /\ 10 * risks.wildfire = 6 * Unit
    /\ EntryOf("wildfire").recommended_actions = ActionTiers("wildfire")[3]

\* C25: GET /predict/risk-assessment/{lat}/{lon} answers, for every valid
\* numeric lat and lon, with a success whose risk_assessment holds the
\* predictions and the confidence_level predict_disaster computed; it never
\* ends in HTTP 500.
C25_RiskAssessmentSucceeds ==
    (endpoint = "risk_assessment" /\ pc \in {"done", "failed"}) =>
        /\ pc = "done"
        /\ response.status = 200
        /\ predictions # << >>
        /\ response.risk_assessment.predictions = predictions
        /\ response.risk_assessment.confidence_level =
              _calculate_overall_confidence(predictions)


\* C26: the list the assembler returns is never empty, so neither aggregator
\* takes its empty-list branch: on Path A the score is built on the combined
\* score of the list, on Path B it is the combined score of the list alone,
\* whatever the visibility, the humidity and the temperature.
C26_ListNeverEmpty ==
    /\ Done => Len(predictions) >= 1
    /\ PathA => response.risk_score >= BaseScore
    /\ PathB => response.risk_score = BaseScore

\* no hazard crosses its threshold and visibility is below 2 km: the list is
\* the low-risk entry and the Path B score stays 1.5
C26_Witness ==
    /\ PathB
    /\ predictions = << low_risk_entry >>
    /\ weather.visibility < 2000
    /\ response.risk_score = 15

\* C27: an earthquake entry is included exactly when the coordinate lies
\* inside at least one zone rectangle, edges included: for every fault
\* distance factor in [0.7, 1.3] and jitter in [-0.02, 0.02] the risk outside
\* all zones is at most 0.046, below the 0.05 cut-off, and the risk inside a
\* zone is at least 0.155, above it.
C27_EarthquakeIffInZone ==
    \A c \in DOMAIN probe :
        probe[c].called =>
            LET a == probe[c].arg
                inside == \E i \in DOMAIN risk_zones :
                              /\ risk_zones[i].lat_range[1] <= a.lat
                              /\ a.lat <= risk_zones[i].lat_range[2]
                              /\ risk_zones[i].lon_range[1] <= a.lon
                              /\ a.lon <= risk_zones[i].lon_range[2]
            IN  /\ probe[c].ret.included <=> inside
                /\ inside => probe[c].ret.earthquake_risk >= (Unit \div 1000) * 155
                /\ ~inside => probe[c].ret.earthquake_risk <= (Unit \div 1000) * 46

\* a corner of the weakest zone with both draws at their lower ends:
\* 0.25 * 0.7 - 0.02 = 0.155, included
C27_Witness ==
    /\ probe # << >>
    /\ probe[1].called
    /\ probe[1].arg = [lat |-> 36, lon |-> 25, fault_distance_factor |-> 70,
                        jitter |-> 0 - earthquake_amp]
    /\ probe[1].ret = [earthquake_risk |-> (Unit \div 1000) * 155, included |-> TRUE]

\* one degree outside that corner with both draws at their upper ends:
\* 0.02 * 1.3 + 0.02 = 0.046, left out
C27_WitnessOutside ==
    /\ probe # << >>
    /\ probe[1].called
    /\ probe[1].arg = [lat |-> 36, lon |-> 24, fault_distance_factor |-> 130,
                        jitter |-> earthquake_amp]
    /\ probe[1].ret = [earthquake_risk |-> (Unit \div 1000) * 46, included |-> FALSE]

\* position of a type in the order in which the assembler tests the hazards
HazardRank(type) ==
    CASE type = "wildfire" -> 1
      [] type = "flood" -> 2
      [] type = "severe_weather" -> 3
      [] type = "earthquake" -> 4
      [] OTHER -> 5

\* C28: every list the assembler returns has between 1 and 4 entries, holds
\* each type at most once, and lists the included hazards in the order
\* wildfire, flood, severe_weather, earthquake.
C28_ListShape ==
    Done =>
        /\ 1 <= Len(predictions) /\ Len(predictions) <= 4
        /\ \A i, j \in DOMAIN predictions :
              i < j => /\ predictions[i].type # predictions[j].type
                       /\ HazardRank(predictions[i].type) < HazardRank(predictions[j].type)

\* all four hazards included
C28_Witness ==
    /\ Done
    /\ Len(predictions) = 4
    /\ predictions[1].type = "wildfire" /\ predictions[4].type = "earthquake"

\* a subset that skips the two hazards in between: wildfire and earthquake
C28_WitnessSubset ==
    /\ Done
    /\ Len(predictions) = 2
    /\ predictions[1].type = "wildfire" /\ predictions[2].type = "earthquake"

\* C29: for every non-empty weather object and the same earthquake draw,
\* calculate_risk of api/predict.py and calculate_risk of api/index.py return
\* the same overall_risk, risk_score, flood_risk, fire_risk, storm_risk,
\* earthquake_risk and confidence.
C29_CopiesAgree ==
    \A c \in DOMAIN probe :
        (probe[c].called /\ probe[c].arg.weather_data # EmptyDict) =>
            \A f \in {"overall_risk", "risk_score", "flood_risk", "fire_risk",
                      "storm_risk", "earthquake_risk", "confidence"} :
                probe[c].ret.predict[f] = probe[c].ret.index[f]

\* every addend of the score taken by both copies: 3 + 2 + 2 + 1.5 + 1.5
C29_Witness ==
    /\ probe # << >>
    /\ probe[1].called
    /\ probe[1].arg.weather_data =
           [main |-> [temp |-> 36, humidity |-> 29, pressure |-> 999],
            wind |-> [speed |-> 41]]
    /\ probe[1].arg.draw = 225
    /\ probe[1].ret.predict.risk_score = 100
    /\ probe[1].ret.index = probe[1].ret.predict

\* the empty object is where the copies part: api/predict.py scores the
\* defaults, api/index.py returns its fixed assessment
C29_WitnessEmpty ==
    /\ probe # << >>
    /\ probe[1].called
    /\ probe[1].arg.weather_data = EmptyDict
    /\ probe[1].ret.predict.confidence = 85
    /\ probe[1].ret.index = fallback_risk

\* the value a request gives for a coordinate: the query's, or for a POST
\* whose query lacks it the body's, under the long key first; None if neither
SuppliedValue(a, key, long_key) ==
    IF key \in DOMAIN a.params THEN a.params[key]
    ELSE IF a.command = "POST" /\ a.body # None /\ long_key \in DOMAIN a.body
         THEN a.body[long_key]
    ELSE IF a.command = "POST" /\ a.body # None /\ key \in DOMAIN a.body
         THEN a.body[key]
    ELSE None

\* C30: _get_coordinates returns the latitude and the longitude the request
\* supplies, both in the query string or both in the JSON body of a POST whose
\* query has neither, a supplied 0 included; a Delhi default stands in only
\* for a coordinate the request did not supply.
C30_SuppliedCoordinatesReturned ==
    \A c \in DOMAIN probe :
        probe[c].called =>
            LET a == probe[c].arg
                lat == SuppliedValue(a, "lat", "latitude")
                lon == SuppliedValue(a, "lon", "longitude")
                one_place == DOMAIN a.params = {"lat", "lon"} \/ DOMAIN a.params = {}
                numerals == /\ lat # None => float(lat).ok
                            /\ lon # None => float(lon).ok
            IN  (one_place /\ numerals) =>
                    /\ probe[c].ret.error = "none"
                    /\ probe[c].ret.lat =
                          IF lat = None THEN default_lat ELSE float(lat).value
                    /\ probe[c].ret.lon =
                          IF lon = None THEN default_lon ELSE float(lon).value
=============================================================================
